---- MODULE Spec2Model ----
(***************************************************************************)
(* The DOCX accessibility remediation front-end as a state machine.        *)
(*                                                                         *)
(* State: the useState cells of App, DocumentUploader, IssuePanel,         *)
(* IssueDetail and DocumentViewer, the HTTP requests in flight, and the    *)
(* part of the backend the REST surface exposes (scan results, staged and  *)
(* applied changes).  Every async handler is split at its awaits: one      *)
(* action for the part that runs up to the request, one for the            *)
(* continuation that runs when the response (or the rejection) arrives.    *)
(* Effects that React runs right after the render a handler causes are     *)
(* part of that handler's action.  The highlight code of DocumentViewer    *)
(* (XPath to selector, selector and content lookup) is a set of operators  *)
(* on character sequences, applied by the highlight effect to issues and   *)
(* rendered containers drawn from bounded sets.                            *)
(***************************************************************************)
EXTENDS Integers, FiniteSets, Sequences, TLC

\* ------------------------------------------------------------------ bounds
\* Requests that may be in flight at once.
MaxInFlight == 2
\* Change ids the backend hands out in one run.
MaxChanges == 2
\* Successful scans in one run (each produces a new version of the issue list).
MaxScans == 1
\* Paragraphs of a rendered container, and runs of a paragraph.
MaxParagraphs == 2
MaxSpans == 2

\* ------------------------------------------------------------ value spaces
\* null of a string-valued state cell
Null == "<null>"
\* null of File | null
NoFile == "<nofile>"
Files == {"a.docx"}
\* The backend knows one document; its upload response carries a status.
DocIds == {"d1"}
DocStatuses == {"uploaded", "ready"}
NoDoc == [id |-> "<none>", status |-> "<none>"]
Document(id, status) == [id |-> id, status |-> status]

IssueIds == {"i1", "i2"}
\* issue.details.original_content; i2 has none (undefined)
OriginalContentOf(i) == IF i = "i1" THEN "old1" ELSE ""
\* An issue object: ver tells which version of the server's list it came from
\* (objects of different responses are different objects to React).
Issue(i, ver) == [id |-> i, original_content |-> OriginalContentOf(i), ver |-> ver]
NoIssue == [id |-> "<none>", original_content |-> "", ver |-> 0]
\* GET /issues/{documentId}: nothing before the first scan, the scan results after
IssueList(ver) == IF ver = 0 THEN <<>> ELSE <<Issue("i1", ver), Issue("i2", ver)>>

\* suggest-fix response; new_value may be empty
NewValues(i) == {"", IF i = "i1" THEN "fix1" ELSE "fix2"}
Suggestion(i, nv) == [issue_id |-> i, new_value |-> nv]
NoSuggestion == [issue_id |-> "<none>", new_value |-> ""]
\* what the user can type into the fix editor
TypedContents == {"", " ", "typed"}

\* String.prototype.trim on the strings of the model
trim(s) == IF s = " " THEN "" ELSE s

\* null of an element of the rendered container
NoElement == [tag |-> "none", p |-> 0, span |-> 0]
\* null of DocumentViewer's selectedIssue prop (of which the highlight code
\* reads element_xpath and details.original_content, as character sequences)
NoViewerIssue == [element_xpath |-> <<"<none>">>, original_content |-> <<>>]
\* the highlight effect has not run for the issue yet
Pending == [by |-> "pending", element |-> NoElement]
\* null of App's diffViewData
NoDiffView ==
  [open |-> FALSE, hasSnippets |-> FALSE, original |-> "", fixed |-> ""]
\* the two DocxSnippetViewers of the overlay
Viewers == {"original", "fixed"}

VARIABLES
  \* App
  currentDocument, selectedIssue, stagedChanges, isApplyingChanges,
  \* DocumentUploader
  isUploading, uploaderError, uploadedFile,
  \* IssuePanel
  issues, panelIsLoading, panelError, isScanning,
  \* IssueDetail
  isEditing, editedContent, detailError, isLoadingSuggestion, suggestion,
  showDiffPreview,
  \* DocumentViewer
  viewerIsLoading, viewerError, isDocumentRendered, renderTimer,
  \* network and backend
  requests, serverVersion, serverStaged, serverApplied, nextChangeId,
  \* DocumentViewer's highlight effect: the rendered container, the issue prop,
  \* the selector last converted, the element found, the highlighted elements
  container, viewerIssue, selector, found, highlighted,
  \* App's diff overlay and its two DocxSnippetViewers
  diffViewData, snippetIsLoading, snippetError, snippetRender,
  \* the handler part that ran last, with the request it belongs to
  event

appVars == <<currentDocument, selectedIssue, stagedChanges, isApplyingChanges>>
uploaderVars == <<isUploading, uploaderError, uploadedFile>>
panelVars == <<issues, panelIsLoading, panelError, isScanning>>
detailVars == <<isEditing, editedContent, detailError, isLoadingSuggestion,
                suggestion, showDiffPreview>>
viewerVars == <<viewerIsLoading, viewerError, isDocumentRendered, renderTimer>>
serverVars == <<serverVersion, serverStaged, serverApplied, nextChangeId>>
highlightVars == <<container, viewerIssue, selector, found, highlighted>>
snippetVars == <<diffViewData, snippetIsLoading, snippetError, snippetRender>>
vars == <<appVars, uploaderVars, panelVars, detailVars, viewerVars, requests,
          serverVars, highlightVars, snippetVars, event>>

\* ----------------------------------------------------------------- network
\* A request in flight is a record: its slot, its kind, what the call site
\* passed (and closed over), and, for the endpoints that read or write backend
\* state, whether the backend has processed it yet and what it answered.
NoReq == [slot |-> 0, kind |-> "none"]
FreeSlots == (1..MaxInFlight) \ {r.slot : r \in requests}
NewSlot == CHOOSE s \in FreeSlots : \A t \in FreeSlots : s <= t
CanSend == FreeSlots # {}
OfKind(k) == {r \in requests : r.kind = k}
\* The handler part that ran last: its name, whether its request succeeded,
\* and for an apply-changes response what the backend answered (for an upload
\* response: its document_id).
ApplyOutcome(r) ==
  IF r.success THEN "success" ELSE IF r.ok THEN "refused" ELSE "threw"
Ev(op, ok, r) ==
  [op |-> op, ok |-> ok,
   detail |-> IF r.kind = "apply" /\ r.served THEN ApplyOutcome(r) ELSE ""]

\* DocumentViewer's render effect: it runs again after every render of App
\* (App passes a new onDocumentRendered closure each time, so renderDocument
\* changes) and (re)starts the 100 ms timer while the status is 'uploaded'.
ArmTimer(document) == document # NoDoc /\ document.status = "uploaded"

Init ==
  /\ currentDocument = NoDoc
  /\ selectedIssue = NoIssue
  /\ stagedChanges = <<>>
  /\ isApplyingChanges = FALSE
  /\ isUploading = FALSE
  /\ uploaderError = Null
  /\ uploadedFile = NoFile
  /\ issues = <<>>
  /\ panelIsLoading = FALSE
  /\ panelError = Null
  /\ isScanning = FALSE
  /\ isEditing = FALSE
  /\ editedContent = ""
  /\ detailError = Null
  /\ isLoadingSuggestion = FALSE
  /\ suggestion = NoSuggestion
  /\ showDiffPreview = FALSE
  /\ viewerIsLoading = FALSE
  /\ viewerError = Null
  /\ isDocumentRendered = FALSE
  /\ renderTimer = FALSE
  /\ requests = {}
  /\ serverVersion = 0
  /\ serverStaged = {}
  /\ serverApplied = {}
  /\ nextChangeId = 1
  /\ container = <<>>
  /\ viewerIssue = NoViewerIssue
  /\ selector = <<>>
  /\ found = Pending
  /\ highlighted = {}
  /\ diffViewData = NoDiffView
  /\ snippetIsLoading = [v \in Viewers |-> TRUE]
  /\ snippetError = [v \in Viewers |-> Null]
  /\ snippetRender = [v \in Viewers |-> "none"]
  /\ event = Ev("init", TRUE, NoReq)

\* ---------------------------------------------------------------- App (1)
\* handleDocumentUploaded: the three setState calls
handleDocumentUploaded_dropsDocument(document) ==
  /\ currentDocument' = currentDocument
  /\ selectedIssue' = NoIssue
  /\ stagedChanges' = <<>>

handleDocumentUploaded(document) ==
  /\ currentDocument' = document
  /\ selectedIssue' = NoIssue
  /\ stagedChanges' = <<>>

\* -------------------------------------------------------- DocumentUploader
\* The uploader is rendered only while App has no document.
UploaderMounted_always == TRUE

UploaderMounted == currentDocument = NoDoc

\* handleFileSelect / handleDrop with a DOCX file, and with a file of another type
SelectFile ==
  /\ UploaderMounted
  /\ \E f \in Files :
       /\ uploadedFile' = f
       /\ uploaderError' = Null
  /\ event' = Ev("handleFileSelect", TRUE, NoReq)
  /\ UNCHANGED <<highlightVars, snippetVars, appVars, isUploading, panelVars, detailVars, viewerVars,
                 requests, serverVars>>

SelectBadFile ==
  /\ UploaderMounted
  /\ uploaderError' = "Please select a valid DOCX file"
  /\ event' = Ev("handleFileSelect", FALSE, NoReq)
  /\ UNCHANGED <<highlightVars, snippetVars, appVars, isUploading, uploadedFile, panelVars, detailVars,
                 viewerVars, requests, serverVars>>

\* handleUpload up to the await; the button is disabled without a file and
\* while isUploading
HandleUpload ==
  /\ UploaderMounted
  /\ uploadedFile # NoFile
  /\ ~isUploading
  /\ CanSend
  /\ isUploading' = TRUE
  /\ uploaderError' = Null
  /\ LET r == [slot |-> NewSlot, kind |-> "upload", file |-> uploadedFile]
     IN /\ requests' = requests \cup {r}
        /\ event' = Ev("handleUpload", TRUE, r)
  /\ UNCHANGED <<highlightVars, snippetVars, appVars, uploadedFile, panelVars, detailVars, viewerVars,
                 serverVars>>

\* loadIssues up to the await (IssuePanel); slot is the slot the request takes
LoadRequest(slot, origin, document) ==
  [slot |-> slot, kind |-> "load", origin |-> origin, doc |-> document.id,
   served |-> FALSE, ok |-> FALSE, resp |-> 0]

\* The upload resolved: documentApi.upload maps the response to a Document,
\* onDocumentUploaded runs, the file is cleared, finally isUploading is reset.
\* App then renders the document view: IssuePanel mounts and its effect calls
\* loadIssues; DocumentViewer mounts and its effect starts the render timer.
\* documentApi.upload after its await: the response mapped to a Document
documentOf_filenameAsId(response) ==
  Document(response.filename, response.status)

documentOf(response) == Document(response.document_id, response.status)

UploadSucceeded(r) ==
  /\ r.kind = "upload"
  /\ \E id \in DocIds, st \in DocStatuses :
       LET response == [document_id |-> id, filename |-> r.file, status |-> st]
           document == documentOf(response)
           l == LoadRequest(r.slot, "mount", currentDocument')
       IN /\ handleDocumentUploaded(document)
          /\ event' = [Ev("uploadDone", TRUE, r) EXCEPT
                         !.detail = response.document_id]
          /\ renderTimer' = ArmTimer(currentDocument')
          /\ IF currentDocument' # NoDoc
               THEN /\ panelIsLoading' = TRUE
                    /\ panelError' = Null
                    /\ requests' = (requests \ {r}) \cup {l}
               ELSE /\ UNCHANGED <<panelIsLoading, panelError>>
                    /\ requests' = requests \ {r}
  /\ uploadedFile' = NoFile
  /\ isUploading' = FALSE
  /\ UNCHANGED <<highlightVars, snippetVars, isApplyingChanges, uploaderError, issues, isScanning,
                 detailVars, viewerIsLoading, viewerError, isDocumentRendered,
                 serverVars>>

UploadFailed(r) ==
  /\ r.kind = "upload"
  /\ uploaderError' = "Upload failed"
  /\ isUploading' = FALSE
  /\ requests' = requests \ {r}
  /\ event' = Ev("uploadDone", FALSE, r)
  /\ UNCHANGED <<highlightVars, snippetVars, appVars, uploadedFile, panelVars, detailVars, viewerVars,
                 serverVars>>

\* --------------------------------------------------------------- IssuePanel
\* IssuePanel, IssueDetail and DocumentViewer are rendered once App has a document.
DocumentView == currentDocument # NoDoc

\* GET /issues/{documentId} at the backend: the current list, or an error
LoadServed(r) ==
  /\ r.kind = "load"
  /\ ~r.served
  /\ \E ok \in BOOLEAN :
       LET answered == [r EXCEPT !.served = TRUE, !.ok = ok,
                                 !.resp = IF ok THEN serverVersion ELSE 0]
       IN /\ requests' = (requests \ {r}) \cup {answered}
          /\ event' = Ev("serveLoad", ok, answered)
  /\ UNCHANGED <<highlightVars, snippetVars, appVars, uploaderVars, panelVars, detailVars, viewerVars,
                 serverVars>>

\* loadIssues after the await: try / catch
loadIssuesCatch_clearsOnFailure(r) ==
  IF r.ok
    THEN /\ issues' = IssueList(r.resp)
         /\ panelError' = panelError
    ELSE /\ issues' = <<>>
         /\ panelError' = "Error: Request failed (issues)"

loadIssuesCatch(r) ==
  IF r.ok
    THEN /\ issues' = IssueList(r.resp)
         /\ panelError' = panelError
    ELSE /\ issues' = issues
         /\ panelError' = "Error: Request failed (issues)"

\* loadIssues after the await: finally
loadIssuesFinally_onlyOnSuccess(r) ==
  panelIsLoading' = IF r.ok THEN FALSE ELSE panelIsLoading

loadIssuesFinally(r) ==
  panelIsLoading' = FALSE

\* The issue-list response arrived.  A load that handleScanDocument awaited
\* also ends that handler: its finally resets isScanning (loadIssues catches
\* its own failure, so handleScanDocument's catch does not run).
LoadDelivered(r) ==
  /\ r.kind = "load"
  /\ r.served
  /\ loadIssuesCatch(r)
  /\ loadIssuesFinally(r)
  /\ isScanning' = IF r.origin = "scan" THEN FALSE ELSE isScanning
  /\ requests' = requests \ {r}
  /\ event' = Ev("loadDone", r.ok, r)
  /\ UNCHANGED <<highlightVars, snippetVars, appVars, uploaderVars, detailVars, viewerVars, serverVars>>

\* handleScanDocument up to the first await; the button is rendered while the
\* document's status is 'uploaded' and disabled while isScanning
HandleScanDocument ==
  /\ DocumentView
  /\ currentDocument.status = "uploaded"
  /\ ~isScanning
  /\ CanSend
  /\ isScanning' = TRUE
  /\ panelError' = Null
  /\ LET r == [slot |-> NewSlot, kind |-> "scan", doc |-> currentDocument.id,
               served |-> FALSE, ok |-> FALSE]
     IN /\ requests' = requests \cup {r}
        /\ event' = Ev("handleScanDocument", TRUE, r)
  /\ UNCHANGED <<highlightVars, snippetVars, appVars, uploaderVars, issues, panelIsLoading, detailVars,
                 viewerVars, serverVars>>

\* the user stops scanning once MaxScans scans have succeeded
ScanWithinBudget == serverVersion < MaxScans /\ HandleScanDocument

\* GET /documents/{id}/scan at the backend: a new version of the issue list
ScanServed(r) ==
  /\ r.kind = "scan"
  /\ ~r.served
  /\ \E ok \in BOOLEAN :
       LET answered == [r EXCEPT !.served = TRUE, !.ok = ok]
       IN /\ ok => serverVersion < MaxScans
          /\ requests' = (requests \ {r}) \cup {answered}
          /\ serverVersion' = IF ok THEN serverVersion + 1 ELSE serverVersion
          /\ event' = Ev("serveScan", ok, answered)
  /\ UNCHANGED <<highlightVars, snippetVars, appVars, uploaderVars, panelVars, detailVars, viewerVars,
                 serverStaged, serverApplied, nextChangeId>>

\* handleScanDocument: catch and finally of a scan that failed
handleScanCatch_noError ==
  /\ panelError' = panelError
  /\ isScanning' = FALSE

handleScanCatch ==
  /\ panelError' = "Error: Request failed (scan)"
  /\ isScanning' = FALSE

\* The scan response arrived: on success the handler goes on to
\* `await loadIssues()`, which sends the issue-list request.
ScanDelivered(r) ==
  /\ r.kind = "scan"
  /\ r.served
  /\ IF r.ok
       THEN /\ panelIsLoading' = TRUE
            /\ panelError' = Null
            /\ isScanning' = isScanning
            /\ requests' = (requests \ {r})
                             \cup {LoadRequest(r.slot, "scan", currentDocument)}
       ELSE /\ handleScanCatch
            /\ panelIsLoading' = panelIsLoading
            /\ requests' = requests \ {r}
  /\ event' = Ev("scanDone", r.ok, r)
  /\ UNCHANGED <<highlightVars, snippetVars, appVars, uploaderVars, issues, detailVars, viewerVars,
                 serverVars>>

\* The list is rendered only when not loading and without an error.
IssueListShown == DocumentView /\ ~panelIsLoading /\ panelError = Null

\* IssueDetail's effect on [issue]: it runs when the issue prop is a new object
IssueEffect_keepsSuggestion(issue) ==
  /\ editedContent' = issue.original_content
  /\ isEditing' = FALSE
  /\ detailError' = Null
  /\ suggestion' = suggestion
  /\ showDiffPreview' = showDiffPreview

IssueEffect(issue) ==
  /\ editedContent' = issue.original_content
  /\ isEditing' = FALSE
  /\ detailError' = Null
  /\ suggestion' = NoSuggestion
  /\ showDiffPreview' = FALSE

\* A click on a list item: App.handleIssueSelect, then IssueDetail's effect.
\* Clicking the issue that is already selected sets the same object and
\* changes nothing.
HandleIssueSelect ==
  /\ IssueListShown
  /\ \E n \in 1..Len(issues) :
       /\ issues[n] # selectedIssue
       /\ selectedIssue' = issues[n]
       /\ IssueEffect(issues[n])
  /\ renderTimer' = ArmTimer(currentDocument)
  /\ event' = Ev("handleIssueSelect", TRUE, NoReq)
  /\ UNCHANGED <<highlightVars, snippetVars, currentDocument, stagedChanges, isApplyingChanges,
                 uploaderVars, panelVars, isLoadingSuggestion, viewerIsLoading,
                 viewerError, isDocumentRendered, requests, serverVars>>

\* -------------------------------------------------------------- IssueDetail
\* IssueDetail renders its controls only with an issue.
DetailShown == DocumentView /\ selectedIssue # NoIssue
\* the text field with Save / Cancel
EditorShown == DetailShown /\ (isEditing \/ suggestion # NoSuggestion)

\* handleGetSuggestion up to the await; the button is rendered when neither
\* editing nor holding a suggestion, and disabled while isLoadingSuggestion
SuggestionButtonEnabled_notDisabled ==
  DetailShown /\ ~isEditing /\ suggestion = NoSuggestion

SuggestionButtonEnabled ==
  DetailShown /\ ~isEditing /\ suggestion = NoSuggestion /\ ~isLoadingSuggestion

HandleGetSuggestion ==
  /\ SuggestionButtonEnabled
  /\ CanSend
  /\ isLoadingSuggestion' = TRUE
  /\ detailError' = Null
  /\ LET r == [slot |-> NewSlot, kind |-> "suggest", issue |-> selectedIssue]
     IN /\ requests' = requests \cup {r}
        /\ event' = Ev("handleGetSuggestion", TRUE, r)
  /\ UNCHANGED <<highlightVars, snippetVars, appVars, uploaderVars, panelVars, isEditing, editedContent,
                 suggestion, showDiffPreview, viewerVars, serverVars>>

\* handleGetSuggestion after the await, success: the response is stored
\* whatever issue is shown by now
applySuggestion_keepsContent(suggestionData) ==
  /\ suggestion' = suggestionData
  /\ editedContent' = editedContent
  /\ showDiffPreview' = TRUE

applySuggestion(suggestionData) ==
  /\ suggestion' = suggestionData
  /\ editedContent' = IF suggestionData.new_value # ""
                        THEN suggestionData.new_value
                        ELSE editedContent
  /\ showDiffPreview' = TRUE

\* handleGetSuggestion: finally
suggestionFinally(ok) ==
  isLoadingSuggestion' = FALSE

SuggestSucceeded(r) ==
  /\ r.kind = "suggest"
  /\ \E nv \in NewValues(r.issue.id) :
       LET suggestionData == Suggestion(r.issue.id, nv)
       IN /\ applySuggestion(suggestionData)
  /\ suggestionFinally(TRUE)
  /\ event' = Ev("suggestDone", TRUE, r)
  /\ requests' = requests \ {r}
  /\ UNCHANGED <<highlightVars, snippetVars, appVars, uploaderVars, panelVars, isEditing, detailError,
                 viewerVars, serverVars>>

\* handleGetSuggestion: catch
suggestionCatch_noError ==
  detailError' = detailError

suggestionCatch ==
  detailError' = "Failed to get AI suggestion: Error"

SuggestFailed(r) ==
  /\ r.kind = "suggest"
  /\ suggestionCatch
  /\ suggestionFinally(FALSE)
  /\ requests' = requests \ {r}
  /\ event' = Ev("suggestDone", FALSE, r)
  /\ UNCHANGED <<highlightVars, snippetVars, appVars, uploaderVars, panelVars, isEditing, editedContent,
                 suggestion, showDiffPreview, viewerVars, serverVars>>

\* handleEdit: 'Edit Fix' (no suggestion, not editing) or 'Edit Suggestion'
HandleEdit ==
  /\ DetailShown
  /\ ~isEditing \/ suggestion # NoSuggestion
  /\ isEditing' = TRUE
  /\ detailError' = Null
  /\ event' = Ev("handleEdit", TRUE, NoReq)
  /\ UNCHANGED <<highlightVars, snippetVars, appVars, uploaderVars, panelVars, editedContent,
                 isLoadingSuggestion, suggestion, showDiffPreview, viewerVars,
                 requests, serverVars>>

\* the text field's onChange
TypeContent ==
  /\ EditorShown
  /\ \E text \in TypedContents :
       /\ text # editedContent
       /\ editedContent' = text
  /\ event' = Ev("onChange", TRUE, NoReq)
  /\ UNCHANGED <<highlightVars, snippetVars, appVars, uploaderVars, panelVars, isEditing, detailError,
                 isLoadingSuggestion, suggestion, showDiffPreview, viewerVars,
                 requests, serverVars>>

HandleCancel ==
  /\ EditorShown
  /\ isEditing' = FALSE
  /\ editedContent' = selectedIssue.original_content
  /\ detailError' = Null
  /\ event' = Ev("handleCancel", TRUE, NoReq)
  /\ UNCHANGED <<highlightVars, snippetVars, appVars, uploaderVars, panelVars, isLoadingSuggestion,
                 suggestion, showDiffPreview, viewerVars, requests, serverVars>>

\* the Show / Hide Diff button of the suggestion alert
ToggleDiffPreview ==
  /\ DetailShown
  /\ suggestion # NoSuggestion
  /\ showDiffPreview' = ~showDiffPreview
  /\ event' = Ev("toggleDiff", TRUE, NoReq)
  /\ UNCHANGED <<highlightVars, snippetVars, appVars, uploaderVars, panelVars, isEditing, editedContent,
                 detailError, isLoadingSuggestion, suggestion, viewerVars,
                 requests, serverVars>>

\* ---------------------------------------------------------------- App (2)
\* The POST /issues/{id}/stage-change request handleFixSave sends; issue is
\* the selectedIssue the handler closed over.
StageRequest(slot, issueId, newContent, changeType, issue) ==
  [slot |-> slot, kind |-> "stage", issueId |-> issueId,
   newContent |-> newContent, changeType |-> changeType, issue |-> issue,
   served |-> FALSE, ok |-> FALSE, change_id |-> 0, created_at |-> 0]

\* stage requests not yet answered by the backend
StageBudget ==
  nextChangeId + Cardinality({r \in OfKind("stage") : ~r.served}) <= MaxChanges

\* IssueDetail.handleSave: the empty-content guard, else onFixSave (which is
\* App.handleFixSave up to its await) and the reset of the editor
\* const changeType = suggestion ? 'suggested' : 'manual'
changeTypeOf_unedited(sugg, content) ==
  IF sugg # NoSuggestion /\ content = sugg.new_value THEN "suggested"
                                                      ELSE "manual"

changeTypeOf(sugg, content) ==
  IF sugg # NoSuggestion THEN "suggested" ELSE "manual"

saveRejected_noTrim(issue, content) == issue = NoIssue \/ content = ""

saveRejected(issue, content) == issue = NoIssue \/ trim(content) = ""

HandleSave ==
  /\ EditorShown
  /\ IF saveRejected(selectedIssue, editedContent)
       THEN /\ detailError' = "Fix content cannot be empty"
            /\ event' = Ev("handleSave", FALSE, NoReq)
            /\ UNCHANGED <<isEditing, suggestion, showDiffPreview, requests>>
       ELSE /\ CanSend
            /\ StageBudget
            /\ LET changeType == changeTypeOf(suggestion, editedContent)
                   r == StageRequest(NewSlot, selectedIssue.id, editedContent,
                                     changeType, selectedIssue)
               IN IF selectedIssue = NoIssue \/ currentDocument = NoDoc
                    THEN /\ requests' = requests
                         /\ event' = Ev("handleSave", TRUE, NoReq)
                    ELSE /\ requests' = requests \cup {r}
                         /\ event' = Ev("handleSave", TRUE, r)
            /\ isEditing' = FALSE
            /\ detailError' = Null
            /\ suggestion' = NoSuggestion
            /\ showDiffPreview' = FALSE
  /\ UNCHANGED <<highlightVars, snippetVars, appVars, uploaderVars, panelVars, editedContent,
                 isLoadingSuggestion, viewerVars, serverVars>>

\* POST /issues/{id}/stage-change at the backend: the change is recorded under
\* a fresh id, or the request fails
StageServed(r) ==
  /\ r.kind = "stage"
  /\ ~r.served
  /\ \E ok \in BOOLEAN :
       LET answered == [r EXCEPT !.served = TRUE, !.ok = ok,
                          !.change_id = IF ok THEN nextChangeId ELSE 0,
                          !.created_at = IF ok THEN nextChangeId ELSE 0]
       IN /\ requests' = (requests \ {r}) \cup {answered}
          /\ serverStaged' = IF ok THEN serverStaged \cup {nextChangeId}
                                   ELSE serverStaged
          /\ nextChangeId' = IF ok THEN nextChangeId + 1 ELSE nextChangeId
          /\ event' = Ev("serveStage", ok, answered)
  /\ UNCHANGED <<highlightVars, snippetVars, appVars, uploaderVars, panelVars, detailVars, viewerVars,
                 serverVersion, serverApplied>>

\* handleFixSave after the await: the local StagedChange object (is_fixed is
\* never given, so it reads as false)
NewStagedChange_fixed(r) ==
  [id |-> r.change_id, issue_id |-> r.issueId,
   original_content |-> r.issue.original_content,
   new_content |-> r.newContent, change_type |-> r.changeType,
   created_at |-> r.created_at, is_fixed |-> TRUE]

NewStagedChange(r) ==
  [id |-> r.change_id, issue_id |-> r.issueId,
   original_content |-> r.issue.original_content,
   new_content |-> r.newContent, change_type |-> r.changeType,
   created_at |-> r.created_at, is_fixed |-> FALSE]

\* setStagedChanges(prev => [...prev, change])
AppendChange_replaces(prev, change) == <<change>>

AppendChange(prev, change) == Append(prev, change)

\* handleFixSave after the await: what stagedChanges becomes (the catch only
\* logs)
stageResult_appendsOnFailure(r, prev) == AppendChange(prev, NewStagedChange(r))

stageResult(r, prev) ==
  IF r.ok THEN AppendChange(prev, NewStagedChange(r)) ELSE prev

StageDelivered(r) ==
  /\ r.kind = "stage"
  /\ r.served
  /\ stagedChanges' = stageResult(r, stagedChanges)
  /\ renderTimer' = IF r.ok THEN ArmTimer(currentDocument) ELSE renderTimer
  /\ requests' = requests \ {r}
  /\ event' = Ev("stageDone", r.ok, r)
  /\ UNCHANGED <<highlightVars, snippetVars, currentDocument, selectedIssue, isApplyingChanges,
                 uploaderVars, panelVars, detailVars, viewerIsLoading,
                 viewerError, isDocumentRendered, serverVars>>

\* --------------------------------------------------------- StagedChangesBar
\* The bar renders nothing for an empty list.
BarShown == Len(stagedChanges) > 0
IsPending(change) == ~change.is_fixed
pendingChanges == SelectSeq(stagedChanges, IsPending)
appliedChanges == SelectSeq(stagedChanges, LAMBDA change : change.is_fixed)
\* Apply: disabled={isApplying || pendingChanges.length === 0}
ApplyButtonEnabled_notDisabled == BarShown /\ Len(pendingChanges) > 0

ApplyButtonEnabled ==
  BarShown /\ ~isApplyingChanges /\ Len(pendingChanges) > 0
\* Clear All: disabled={isApplying}
ClearButtonEnabled == BarShown /\ ~isApplyingChanges

\* ---------------------------------------------------------------- App (3)
\* The optional changeIds argument handleApplyChanges passes to
\* changesApi.applyChanges: <<>> is "not passed", <<ids>> is "passed ids".
applyChangesArgs_localIds(staged) == <<{staged[n].id : n \in 1..Len(staged)}>>

applyChangesArgs(staged) == <<>>

\* changesApi.applyChanges: payload = changeIds ? { change_ids } : {}
applyChangesPayload(changeIds) ==
  IF changeIds # <<>>
    THEN [has_ids |-> TRUE, change_ids |-> changeIds[1]]
    ELSE [has_ids |-> FALSE, change_ids |-> {}]

\* handleApplyChanges up to the await; Apply is disabled while applying and
\* without pending changes
HandleApplyChanges ==
  /\ ApplyButtonEnabled
  /\ CanSend
  /\ IF currentDocument = NoDoc
       THEN /\ event' = Ev("handleApplyChanges", FALSE, NoReq)
            /\ UNCHANGED <<isApplyingChanges, requests, renderTimer>>
       ELSE LET r == [slot |-> NewSlot, kind |-> "apply",
                      doc |-> currentDocument.id,
                      payload |-> applyChangesPayload(applyChangesArgs(stagedChanges)),
                      served |-> FALSE, ok |-> FALSE, success |-> FALSE]
            IN /\ isApplyingChanges' = TRUE
               /\ requests' = requests \cup {r}
               /\ renderTimer' = ArmTimer(currentDocument)
               /\ event' = Ev("handleApplyChanges", TRUE, r)
  /\ UNCHANGED <<highlightVars, snippetVars, currentDocument, selectedIssue, stagedChanges, uploaderVars,
                 panelVars, detailVars, viewerIsLoading, viewerError,
                 isDocumentRendered, serverVars>>

\* POST /documents/{id}/apply-changes at the backend: without change_ids the
\* batch is every staged change of the document.  The request throws, or
\* answers success = true (batch applied) or success = false (nothing applied).
ApplyBatch(payload) ==
  IF payload.has_ids THEN serverStaged \cap payload.change_ids ELSE serverStaged

ApplyServed(r) ==
  /\ r.kind = "apply"
  /\ ~r.served
  /\ \E ok \in BOOLEAN, success \in BOOLEAN :
       /\ success => ok
       /\ LET answered == [r EXCEPT !.served = TRUE, !.ok = ok,
                                    !.success = success]
          IN /\ requests' = (requests \ {r}) \cup {answered}
             /\ event' = Ev("serveApply", ok, answered)
       /\ IF success
            THEN /\ serverApplied' = serverApplied \cup ApplyBatch(r.payload)
                 /\ serverStaged' = serverStaged \ ApplyBatch(r.payload)
            ELSE UNCHANGED <<serverApplied, serverStaged>>
  /\ UNCHANGED <<highlightVars, snippetVars, appVars, uploaderVars, panelVars, detailVars, viewerVars,
                 serverVersion, nextChangeId>>

\* handleApplyChanges after the await: what stagedChanges becomes
applyResult_alwaysClears(r, prev) == <<>>

applyResult(r, prev) == IF r.ok /\ r.success THEN <<>> ELSE prev

\* handleApplyChanges: finally
applyFinally(r) ==
  isApplyingChanges' = FALSE

ApplyDelivered(r) ==
  /\ r.kind = "apply"
  /\ r.served
  /\ stagedChanges' = applyResult(r, stagedChanges)
  /\ applyFinally(r)
  /\ renderTimer' = ArmTimer(currentDocument)
  /\ requests' = requests \ {r}
  /\ event' = Ev("applyDone", r.ok, r)
  /\ UNCHANGED <<highlightVars, snippetVars, currentDocument, selectedIssue, uploaderVars, panelVars,
                 detailVars, viewerIsLoading, viewerError, isDocumentRendered,
                 serverVars>>

\* handleClearChanges up to the await; Clear All is disabled while applying
HandleClearChanges ==
  /\ ClearButtonEnabled
  /\ CanSend
  /\ IF currentDocument = NoDoc
       THEN /\ event' = Ev("handleClearChanges", FALSE, NoReq)
            /\ UNCHANGED requests
       ELSE LET r == [slot |-> NewSlot, kind |-> "clear",
                      doc |-> currentDocument.id, served |-> FALSE,
                      ok |-> FALSE]
            IN /\ requests' = requests \cup {r}
               /\ event' = Ev("handleClearChanges", TRUE, r)
  /\ UNCHANGED <<highlightVars, snippetVars, appVars, uploaderVars, panelVars, detailVars, viewerVars,
                 serverVars>>

\* POST /changes/{documentId}/clear at the backend
ClearServed(r) ==
  /\ r.kind = "clear"
  /\ ~r.served
  /\ \E ok \in BOOLEAN :
       LET answered == [r EXCEPT !.served = TRUE, !.ok = ok]
       IN /\ requests' = (requests \ {r}) \cup {answered}
          /\ serverStaged' = IF ok THEN {} ELSE serverStaged
          /\ event' = Ev("serveClear", ok, answered)
  /\ UNCHANGED <<highlightVars, snippetVars, appVars, uploaderVars, panelVars, detailVars, viewerVars,
                 serverVersion, serverApplied, nextChangeId>>

\* handleClearChanges after the await: try and catch both clear the list
clearResult_keepsOnFailure(r, prev) == IF r.ok THEN <<>> ELSE prev

clearResult(r, prev) == <<>>

ClearDelivered(r) ==
  /\ r.kind = "clear"
  /\ r.served
  /\ stagedChanges' = clearResult(r, stagedChanges)
  /\ renderTimer' = ArmTimer(currentDocument)
  /\ requests' = requests \ {r}
  /\ event' = Ev("clearDone", r.ok, r)
  /\ UNCHANGED <<highlightVars, snippetVars, currentDocument, selectedIssue, isApplyingChanges,
                 uploaderVars, panelVars, detailVars, viewerIsLoading,
                 viewerError, isDocumentRendered, serverVars>>

\* handleRemoveChange up to the await: the delete icon of a pending change's chip
HandleRemoveChange ==
  /\ BarShown
  /\ CanSend
  /\ \E n \in 1..Len(pendingChanges) :
       LET r == [slot |-> NewSlot, kind |-> "remove",
                 changeId |-> pendingChanges[n].id, served |-> FALSE,
                 ok |-> FALSE]
       IN /\ requests' = requests \cup {r}
          /\ event' = Ev("handleRemoveChange", TRUE, r)
  /\ UNCHANGED <<highlightVars, snippetVars, appVars, uploaderVars, panelVars, detailVars, viewerVars,
                 serverVars>>

\* DELETE /changes/{changeId} at the backend; a change it no longer holds
\* cannot be deleted
RemoveServed(r) ==
  /\ r.kind = "remove"
  /\ ~r.served
  /\ \E ok \in BOOLEAN :
       /\ ok => r.changeId \in serverStaged
       /\ LET answered == [r EXCEPT !.served = TRUE, !.ok = ok]
          IN /\ requests' = (requests \ {r}) \cup {answered}
             /\ event' = Ev("serveRemove", ok, answered)
       /\ serverStaged' = IF ok THEN serverStaged \ {r.changeId}
                                ELSE serverStaged
  /\ UNCHANGED <<highlightVars, snippetVars, appVars, uploaderVars, panelVars, detailVars, viewerVars,
                 serverVersion, serverApplied, nextChangeId>>

\* prev.filter(change => change.id !== changeId)
WithoutChange_keepsAll(prev, changeId) == prev

WithoutChange(prev, changeId) ==
  SelectSeq(prev, LAMBDA change : change.id # changeId)

\* handleRemoveChange after the await: try and catch both filter the list
removeResult_keepsOnFailure(r, prev) ==
  IF r.ok THEN WithoutChange(prev, r.changeId) ELSE prev

removeResult(r, prev) == WithoutChange(prev, r.changeId)

RemoveDelivered(r) ==
  /\ r.kind = "remove"
  /\ r.served
  /\ stagedChanges' = removeResult(r, stagedChanges)
  /\ renderTimer' = ArmTimer(currentDocument)
  /\ requests' = requests \ {r}
  /\ event' = Ev("removeDone", r.ok, r)
  /\ UNCHANGED <<highlightVars, snippetVars, currentDocument, selectedIssue, isApplyingChanges,
                 uploaderVars, panelVars, detailVars, viewerIsLoading,
                 viewerError, isDocumentRendered, serverVars>>

\* ----------------------------------------------------------- DocumentViewer
\* renderDocument up to the first await (the container ref is always rendered
\* in the document view)
renderDocumentStart ==
  /\ viewerIsLoading' = TRUE
  /\ viewerError' = Null
  /\ isDocumentRendered' = FALSE
  /\ LET r == [slot |-> NewSlot, kind |-> "file", doc |-> currentDocument.id]
     IN /\ requests' = requests \cup {r}
        /\ event' = Ev("renderDocument", TRUE, r)

\* the effect's 100 ms timer fires
RenderTimerFires ==
  /\ DocumentView
  /\ renderTimer
  /\ CanSend
  /\ renderTimer' = FALSE
  /\ renderDocumentStart
  /\ UNCHANGED <<highlightVars, snippetVars, appVars, uploaderVars, panelVars, detailVars, serverVars>>

\* the 'Render Document' button, shown when not rendered, not loading, no error
ClickRenderDocument ==
  /\ DocumentView
  /\ ~isDocumentRendered /\ ~viewerIsLoading /\ viewerError = Null
  /\ CanSend
  /\ renderDocumentStart
  /\ UNCHANGED <<highlightVars, snippetVars, appVars, uploaderVars, panelVars, detailVars, renderTimer,
                 serverVars>>

\* GET /documents/{id}/file resolved: the handler goes on to await renderAsync
FileSucceeded(r) ==
  /\ r.kind = "file"
  /\ requests' = (requests \ {r}) \cup {[r EXCEPT !.kind = "renderAsync"]}
  /\ event' = Ev("fileDone", TRUE, r)
  /\ UNCHANGED <<highlightVars, snippetVars, appVars, uploaderVars, panelVars, detailVars, viewerVars,
                 serverVars>>

\* renderDocument: catch
renderCatch ==
  viewerError' = "Failed to render document: Error"

\* renderDocument: finally
renderFinally(ok) ==
  viewerIsLoading' = FALSE

\* the file request, or renderAsync, rejected
RenderFailed(r) ==
  /\ r.kind \in {"file", "renderAsync"}
  /\ renderCatch
  /\ renderFinally(FALSE)
  /\ requests' = requests \ {r}
  /\ event' = Ev("renderDone", FALSE, r)
  /\ UNCHANGED <<highlightVars, snippetVars, appVars, uploaderVars, panelVars, detailVars,
                 isDocumentRendered, renderTimer, serverVars>>

\* renderAsync resolved
RenderSucceeded(r) ==
  /\ r.kind = "renderAsync"
  /\ isDocumentRendered' = TRUE
  /\ renderFinally(TRUE)
  /\ requests' = requests \ {r}
  /\ event' = Ev("renderDone", TRUE, r)
  /\ UNCHANGED <<highlightVars, snippetVars, appVars, uploaderVars, panelVars, detailVars, viewerError,
                 renderTimer, serverVars>>

\* ------------------------------------------------ DocumentViewer: highlight
\* The strings the highlight code takes apart are sequences of characters.
DigitChars == <<"0", "1", "2", "3", "4", "5", "6", "7", "8", "9">>
IsDigit(c) == \E n \in 1..Len(DigitChars) : DigitChars[n] = c
DigitValue(c) == (CHOOSE n \in 1..Len(DigitChars) : DigitChars[n] = c) - 1
RECURSIVE NumberOf(_)
NumberOf(digits) ==
  IF digits = <<>> THEN 0
  ELSE 10 * NumberOf(SubSeq(digits, 1, Len(digits) - 1))
         + DigitValue(digits[Len(digits)])

\* s.startsWith(literal, i), positions counted from 1
StartsAt(s, i, literal) ==
  /\ i + Len(literal) - 1 <= Len(s)
  /\ SubSeq(s, i, i + Len(literal) - 1) = literal
\* the length of the run of digits of s that starts at position i
RECURSIVE DigitRun(_, _)
DigitRun(s, i) ==
  IF i <= Len(s) /\ IsDigit(s[i]) THEN 1 + DigitRun(s, i + 1) ELSE 0
\* /prefix\[(\d+)\]/ matched at position i: the length of the match, 0 for none
IndexedMatch(s, i, prefix) ==
  LET first == i + Len(prefix) + 1
      run == DigitRun(s, first)
  IN IF /\ StartsAt(s, i, prefix \o <<"[">>)
        /\ run > 0
        /\ first + run <= Len(s)
        /\ s[first + run] = "]"
       THEN Len(prefix) + run + 2
       ELSE 0

NthOfType == <<":", "n", "t", "h", "-", "o", "f", "-", "t", "y", "p", "e", "(">>
\* s.replace(/prefix\[(\d+)\]/g, by + ':nth-of-type($1)'), from position i on
RECURSIVE replaceIndexed(_, _, _, _)
replaceIndexed(s, i, prefix, by) ==
  IF i > Len(s) THEN <<>>
  ELSE LET matched == IndexedMatch(s, i, prefix)
       IN IF matched > 0
            THEN by \o NthOfType
                    \o SubSeq(s, i + Len(prefix) + 1, i + matched - 2)
                    \o <<")">>
                    \o replaceIndexed(s, i + matched, prefix, by)
            ELSE <<s[i]>> \o replaceIndexed(s, i + 1, prefix, by)
\* s.replace(/literal/g, ''), from position i on
RECURSIVE removeLiteral(_, _, _)
removeLiteral(s, i, literal) ==
  IF i > Len(s) THEN <<>>
  ELSE IF StartsAt(s, i, literal)
         THEN removeLiteral(s, i + Len(literal), literal)
         ELSE <<s[i]>> \o removeLiteral(s, i + 1, literal)

\* the tag names of the selectors, as characters
TagChars(tag) ==
  CASE tag = "table" -> <<"t", "a", "b", "l", "e">>
    [] tag = "p" -> <<"p">>
    [] tag = "span" -> <<"s", "p", "a", "n">>
    [] tag = "tr" -> <<"t", "r">>
    [] tag = "td" -> <<"t", "d">>
SelectorTags == {"table", "p", "span", "tr", "td"}

\* convertXPathToSelector: the seven replacements, in the order of the code
\* (a string replacement does not throw, so the catch is never taken)
convertXPathToSelector(xpath) ==
  LET tables == replaceIndexed(xpath, 1, <<"/", "/", "w", ":", "t", "b", "l">>,
                               TagChars("table"))
      paragraphs == replaceIndexed(tables, 1, <<"/", "/", "w", ":", "p">>,
                                   TagChars("p"))
      runs == replaceIndexed(paragraphs, 1, <<"/", "w", ":", "r">>,
                             <<" ">> \o TagChars("span"))
      texts == removeLiteral(runs, 1, <<"/", "w", ":", "t">>)
      rows == replaceIndexed(texts, 1, <<"/", "w", ":", "t", "r">>,
                             <<" ">> \o TagChars("tr"))
      cells == replaceIndexed(rows, 1, <<"/", "w", ":", "t", "c">>,
                              <<" ">> \o TagChars("td"))
  IN removeLiteral(cells, 1, <<"w", ":">>)

\* The container docx-preview filled: paragraphs (<p>) in document order, each
\* a sequence of runs (<span>), each run holding one text node.
Paragraph(k) == [tag |-> "p", p |-> k, span |-> 0]
Span(k, j) == [tag |-> "span", p |-> k, span |-> j]
RECURSIVE Concat(_)
Concat(texts) ==
  IF texts = <<>> THEN <<>> ELSE Head(texts) \o Concat(Tail(texts))
\* element.textContent
textContent(element, dom) ==
  IF element.tag = "span" THEN dom[element.p][element.span]
                          ELSE Concat(dom[element.p])
\* the elements of the container in document order
RECURSIVE ElementsFrom(_, _)
ElementsFrom(dom, k) ==
  IF k > Len(dom) THEN <<>>
  ELSE <<Paragraph(k)>> \o [j \in 1..Len(dom[k]) |-> Span(k, j)]
         \o ElementsFrom(dom, k + 1)
Elements(dom) == ElementsFrom(dom, 1)
\* the first of the elements a search selected, or null
FirstElement(hits) == IF hits = <<>> THEN NoElement ELSE hits[1]

\* A selector the CSS parser accepts here: compound selectors
\* tag:nth-of-type(n) joined by the descendant combinator ' '.  What is left
\* of an XPath the replacements did not cover ('/', '[n]') is a syntax error.
RECURSIVE SplitAtSpaces(_, _)
SplitAtSpaces(s, part) ==
  IF s = <<>> THEN <<part>>
  ELSE IF Head(s) = " " THEN <<part>> \o SplitAtSpaces(Tail(s), <<>>)
                        ELSE SplitAtSpaces(Tail(s), Append(part, Head(s)))
StepOfTag(part, tag) ==
  LET open == TagChars(tag) \o NthOfType
      digits == SubSeq(part, Len(open) + 1, Len(part) - 1)
  IN /\ StartsAt(part, 1, open)
     /\ Len(part) >= Len(open) + 2
     /\ part[Len(part)] = ")"
     /\ DigitRun(digits, 1) = Len(digits)
IsStep(part) == \E tag \in SelectorTags : StepOfTag(part, tag)
Step(part) ==
  LET tag == CHOOSE t \in SelectorTags : StepOfTag(part, t)
      open == TagChars(tag) \o NthOfType
  IN [tag |-> tag, nth |-> NumberOf(SubSeq(part, Len(open) + 1, Len(part) - 1))]
ValidSelector(css) ==
  LET parts == SplitAtSpaces(css, <<>>)
  IN \A n \in 1..Len(parts) : IsStep(parts[n])
\* element.matches(selector) in a container of paragraphs and runs
MatchesSelector(element, css) ==
  LET parts == SplitAtSpaces(css, <<>>)
      steps == [n \in 1..Len(parts) |-> Step(parts[n])]
      last == steps[Len(steps)]
  IN IF element.tag = "p"
       THEN Len(steps) = 1 /\ last = [tag |-> "p", nth |-> element.p]
       ELSE /\ last = [tag |-> "span", nth |-> element.span]
            /\ \/ Len(steps) = 1
               \/ Len(steps) = 2 /\ steps[1] = [tag |-> "p", nth |-> element.p]
\* container.querySelector(selector): the first match in document order,
\* null, or a SyntaxError
querySelector(css, dom) ==
  IF ~ValidSelector(css)
    THEN [threw |-> TRUE, element |-> NoElement]
    ELSE [threw |-> FALSE,
          element |-> FirstElement(SelectSeq(Elements(dom),
                                             LAMBDA e : MatchesSelector(e, css)))]

\* findElementBySelector: null for an empty selector, for no match and for a
\* selector the query rejects
findElementBySelector(xpath, dom) ==
  LET css == convertXPathToSelector(xpath)
      queried == querySelector(css, dom)
  IN IF css = <<>> \/ queried.threw THEN NoElement ELSE queried.element

\* String.prototype.trim
RECURSIVE trimStart(_)
trimStart(s) == IF s # <<>> /\ Head(s) = " " THEN trimStart(Tail(s)) ELSE s
RECURSIVE trimEnd(_)
trimEnd(s) ==
  IF s # <<>> /\ s[Len(s)] = " " THEN trimEnd(SubSeq(s, 1, Len(s) - 1)) ELSE s
trimChars(s) == trimEnd(trimStart(s))
\* String.prototype.includes
includes(s, part) == \E i \in 1..(Len(s) + 1) : StartsAt(s, i, part)

\* findElementByContent: the parent of the first text node whose trimmed
\* text is the trimmed content; failing that the first p or span whose text
\* includes the trimmed content
ExactMatch(content, dom) ==
  FirstElement(SelectSeq(Elements(dom),
    LAMBDA e : /\ e.tag = "span"
               /\ trimChars(textContent(e, dom)) = trimChars(content)))
PartialMatch(content, dom) ==
  FirstElement(SelectSeq(Elements(dom),
    LAMBDA e : includes(textContent(e, dom), trimChars(content))))
findElementByContent(content, dom) ==
  IF ExactMatch(content, dom) # NoElement THEN ExactMatch(content, dom)
                                          ELSE PartialMatch(content, dom)

\* findTargetElement: the selector first, then the content; `by` is the
\* strategy that found the element (the message the code logs)
NotFound == [by |-> "none", element |-> NoElement]
findTargetElement_contentFirst(issue, dom) ==
  LET bySelector == IF issue.element_xpath # <<>>
                      THEN findElementBySelector(issue.element_xpath, dom)
                      ELSE NoElement
      byContent == IF issue.original_content # <<>>
                     THEN findElementByContent(issue.original_content, dom)
                     ELSE NoElement
  IN IF byContent # NoElement THEN [by |-> "content", element |-> byContent]
     ELSE IF bySelector # NoElement
            THEN [by |-> "selector", element |-> bySelector]
            ELSE NotFound

findTargetElement(issue, dom) ==
  LET bySelector == IF issue.element_xpath # <<>>
                      THEN findElementBySelector(issue.element_xpath, dom)
                      ELSE NoElement
      byContent == IF issue.original_content # <<>>
                     THEN findElementByContent(issue.original_content, dom)
                     ELSE NoElement
  IN IF bySelector # NoElement THEN [by |-> "selector", element |-> bySelector]
     ELSE IF byContent # NoElement
            THEN [by |-> "content", element |-> byContent]
            ELSE NotFound

\* The inputs of the highlight code: XPaths of the shapes the backend's
\* locators have, issue contents, and containers of up to MaxParagraphs
\* paragraphs of up to MaxSpans runs.
XPathIndices == {<<"1">>, <<"2">>, <<"1", "0">>}
Index(digits) == <<"[">> \o digits \o <<"]">>
XPathParagraph(n) == <<"/", "/", "w", ":", "p">> \o Index(n)
XPathText(n, m) ==
  XPathParagraph(n) \o <<"/", "w", ":", "r">> \o Index(m) \o <<"/", "w", ":", "t">>
XPathTableCell(n, m, k, l) ==
  <<"/", "/", "w", ":", "t", "b", "l">> \o Index(n)
    \o <<"/", "w", ":", "t", "r">> \o Index(m)
    \o <<"/", "w", ":", "t", "c">> \o Index(k)
    \o <<"/", "w", ":", "p">> \o Index(l)
XPaths ==
  {<<>>}
    \cup {XPathParagraph(n) : n \in XPathIndices}
    \cup {XPathText(n, m) : n, m \in XPathIndices}
    \cup {XPathTableCell(<<"1">>, m, k, l) : m, k, l \in {<<"1">>, <<"2">>}}
Contents == {<<>>, <<"a">>, <<"a", " ">>, <<"b">>, <<" ">>}
ViewerIssue(xpath, content) ==
  [element_xpath |-> xpath, original_content |-> content]
ViewerIssues == {ViewerIssue(x, c) : x \in XPaths, c \in Contents}
Texts == {<<"a">>, <<"a", "b">>, <<" ", "a">>}
SeqsUpTo(S, max) == UNION {[1..n -> S] : n \in 0..max}
Containers ==
  SeqsUpTo(SeqsUpTo(Texts, MaxSpans) \ {<<>>}, MaxParagraphs)

\* The highlight effect of DocumentViewer for a (new) selectedIssue prop, once
\* the document is rendered: removeHighlights, findTargetElement, and
\* highlightElement when an element was found.
HighlightEffect ==
  /\ isDocumentRendered
  /\ viewerIssue # NoViewerIssue
  /\ found = Pending
  /\ selector' = IF viewerIssue.element_xpath # <<>>
                   THEN convertXPathToSelector(viewerIssue.element_xpath)
                   ELSE <<>>
  /\ found' = findTargetElement(viewerIssue, container)
  /\ highlighted' = IF found'.element # NoElement THEN {found'.element} ELSE {}
  /\ event' = Ev("highlight", found'.element # NoElement, NoReq)
  /\ UNCHANGED <<appVars, uploaderVars, panelVars, detailVars, viewerVars,
                 requests, serverVars, container, viewerIssue, snippetVars>>

\* ------------------------------------- DiffViewOverlay, DocxSnippetViewer
\* base64Data: none, text that is no base64, and the base64 of a file
Base64Values == {"", "%%", "UEsDBA=="}
\* window.atob throws on a string that is no base64
atobThrows(base64) == base64 = "%%"
\* App's diffViewData when not null: the data of the overlay with its optional
\* docxSnippets (the texts it shows otherwise are not modelled)
DiffViewData(has, original, fixed) ==
  [open |-> TRUE, hasSnippets |-> has, original |-> original, fixed |-> fixed]
DiffViewDatas ==
  {DiffViewData(FALSE, "", "")}
    \cup {DiffViewData(TRUE, o, f) : o, f \in Base64Values}
\* The overlay renders one DocxSnippetViewer per side when data.docxSnippets
\* is an object.
SnippetMounted(data) == data.open /\ data.hasSnippets
base64DataOf(data, v) == IF v = "original" THEN data.original ELSE data.fixed

\* A DocxSnippetViewer after its mount and the synchronous part of its effect:
\* useState(true) and useState(null); renderSnippet returns at once without
\* base64Data, else it sets isLoading and error, and base64ToArrayBuffer
\* throws into the catch or renderAsync is awaited.
snippetEffect(base64Data) ==
  IF base64Data = ""
    THEN [isLoading |-> TRUE, error |-> Null, render |-> "none"]
    ELSE IF atobThrows(base64Data)
           THEN [isLoading |-> FALSE, error |-> "Failed to render ",
                 render |-> "none"]
           ELSE [isLoading |-> TRUE, error |-> Null, render |-> "pending"]
\* the cells of a viewer that is not mounted
Unmounted == [isLoading |-> TRUE, error |-> Null, render |-> "none"]
SnippetStates(data) ==
  [v \in Viewers |-> IF SnippetMounted(data)
                       THEN snippetEffect(base64DataOf(data, v))
                       ELSE Unmounted]
SetSnippets(states) ==
  /\ snippetIsLoading' = [v \in Viewers |-> states[v].isLoading]
  /\ snippetError' = [v \in Viewers |-> states[v].error]
  /\ snippetRender' = [v \in Viewers |-> states[v].render]

\* onDiffViewOpen (App's setDiffViewData), the callback App hands to the
\* IssueDetail of the document view: the overlay opens and its viewers mount
OpenDiffView ==
  /\ DocumentView
  /\ ~diffViewData.open
  /\ \E data \in DiffViewDatas :
       /\ diffViewData' = data
       /\ SetSnippets(SnippetStates(data))
  /\ renderTimer' = ArmTimer(currentDocument)
  /\ event' = Ev("openDiffView", TRUE, NoReq)
  /\ UNCHANGED <<appVars, uploaderVars, panelVars, detailVars, viewerIsLoading,
                 viewerError, isDocumentRendered, requests, serverVars,
                 highlightVars>>

\* onClose: setDiffViewData(null); the viewers unmount, and what a pending
\* renderAsync does later reaches no mounted component
CloseDiffView ==
  /\ diffViewData.open
  /\ diffViewData' = NoDiffView
  /\ SetSnippets(SnippetStates(NoDiffView))
  /\ renderTimer' = ArmTimer(currentDocument)
  /\ event' = Ev("closeDiffView", TRUE, NoReq)
  /\ UNCHANGED <<appVars, uploaderVars, panelVars, detailVars, viewerIsLoading,
                 viewerError, isDocumentRendered, requests, serverVars,
                 highlightVars>>

\* renderAsync of viewer v resolved: setIsLoading(false)
SnippetRenderSucceeded(v) ==
  /\ snippetRender[v] = "pending"
  /\ snippetRender' = [snippetRender EXCEPT ![v] = "done"]
  /\ snippetIsLoading' = [snippetIsLoading EXCEPT ![v] = FALSE]
  /\ event' = Ev("snippetDone", TRUE, NoReq)
  /\ UNCHANGED <<appVars, uploaderVars, panelVars, detailVars, viewerVars,
                 requests, serverVars, highlightVars, diffViewData,
                 snippetError>>

\* renderAsync of viewer v rejected: the catch
SnippetRenderFailed(v) ==
  /\ snippetRender[v] = "pending"
  /\ snippetRender' = [snippetRender EXCEPT ![v] = "none"]
  /\ snippetError' = [snippetError EXCEPT ![v] = "Failed to render "]
  /\ snippetIsLoading' = [snippetIsLoading EXCEPT ![v] = FALSE]
  /\ event' = Ev("snippetDone", FALSE, NoReq)
  /\ UNCHANGED <<appVars, uploaderVars, panelVars, detailVars, viewerVars,
                 requests, serverVars, highlightVars, diffViewData>>

\* ----------------------------------------------------------- specification
\* the backend processes a request
Serve(r) ==
  \/ LoadServed(r)
  \/ ScanServed(r)
  \/ StageServed(r)
  \/ ApplyServed(r)
  \/ ClearServed(r)
  \/ RemoveServed(r)

\* a response or a rejection reaches the handler that awaits it
Deliver(r) ==
  \/ UploadSucceeded(r)
  \/ UploadFailed(r)
  \/ LoadDelivered(r)
  \/ ScanDelivered(r)
  \/ SuggestSucceeded(r)
  \/ SuggestFailed(r)
  \/ StageDelivered(r)
  \/ ApplyDelivered(r)
  \/ ClearDelivered(r)
  \/ RemoveDelivered(r)
  \/ FileSucceeded(r)
  \/ RenderFailed(r)
  \/ RenderSucceeded(r)

\* The whole front-end: every user action, the timer, the backend, the
\* responses.
Next ==
  \/ SelectFile
  \/ SelectBadFile
  \/ HandleUpload
  \/ ScanWithinBudget
  \/ HandleIssueSelect
  \/ HandleGetSuggestion
  \/ HandleEdit
  \/ TypeContent
  \/ HandleCancel
  \/ ToggleDiffPreview
  \/ HandleSave
  \/ HandleApplyChanges
  \/ HandleClearChanges
  \/ HandleRemoveChange
  \/ ClickRenderDocument
  \/ RenderTimerFires
  \/ OpenDiffView
  \/ CloseDiffView
  \/ \E v \in Viewers : SnippetRenderSucceeded(v) \/ SnippetRenderFailed(v)
  \/ \E r \in requests : Serve(r)
  \/ \E r \in requests : Deliver(r)

Spec == Init /\ [][Next]_vars

\* The specifications below are Spec with the user confined to a part of the
\* interface; the handlers, the backend and the responses are those of Spec.

\* Upload, issue list, scan, issue selection and the fix editor without
\* staging: the user never presses Save and never starts a render.
NextPanel ==
  \/ SelectFile
  \/ SelectBadFile
  \/ HandleUpload
  \/ ScanWithinBudget
  \/ HandleIssueSelect
  \/ HandleGetSuggestion
  \/ HandleEdit
  \/ TypeContent
  \/ HandleCancel
  \/ ToggleDiffPreview
  \/ \E r \in requests : \/ UploadSucceeded(r)
                         \/ UploadFailed(r)
                         \/ LoadServed(r)
                         \/ LoadDelivered(r)
                         \/ ScanServed(r)
                         \/ ScanDelivered(r)
                         \/ SuggestSucceeded(r)
                         \/ SuggestFailed(r)

SpecPanel == Init /\ [][NextPanel]_vars

\* A suggestion and its staging: the user uploads, scans, selects issues,
\* asks for a suggestion and presses Save; no manual editing, no render.
NextDetail ==
  \/ SelectFile
  \/ HandleUpload
  \/ ScanWithinBudget
  \/ HandleIssueSelect
  \/ HandleGetSuggestion
  \/ HandleSave
  \/ \E r \in requests : \/ UploadSucceeded(r)
                         \/ UploadFailed(r)
                         \/ LoadServed(r)
                         \/ LoadDelivered(r)
                         \/ ScanServed(r)
                         \/ ScanDelivered(r)
                         \/ SuggestSucceeded(r)
                         \/ SuggestFailed(r)
                         \/ StageServed(r)
                         \/ StageDelivered(r)

SpecDetail == Init /\ [][NextDetail]_vars

\* Staged changes: the original text is staged as a manual fix, removed,
\* cleared and applied; the user types nothing, asks for no suggestion and
\* starts no render.
NextStaging ==
  \/ SelectFile
  \/ HandleUpload
  \/ ScanWithinBudget
  \/ HandleIssueSelect
  \/ HandleEdit
  \/ HandleSave
  \/ HandleApplyChanges
  \/ HandleClearChanges
  \/ HandleRemoveChange
  \/ \E r \in requests : \/ UploadSucceeded(r)
                         \/ UploadFailed(r)
                         \/ LoadServed(r)
                         \/ LoadDelivered(r)
                         \/ ScanServed(r)
                         \/ ScanDelivered(r)
                         \/ StageServed(r)
                         \/ StageDelivered(r)
                         \/ ApplyServed(r)
                         \/ ApplyDelivered(r)
                         \/ ClearServed(r)
                         \/ ClearDelivered(r)
                         \/ RemoveServed(r)
                         \/ RemoveDelivered(r)

SpecStaging == Init /\ [][NextStaging]_vars

\* The same user with a backend that answers every stage-change, apply,
\* clear and remove request without an error (apply may still report
\* success = false).
NextMirror ==
  \/ SelectFile
  \/ HandleUpload
  \/ ScanWithinBudget
  \/ HandleIssueSelect
  \/ HandleEdit
  \/ HandleSave
  \/ HandleApplyChanges
  \/ HandleClearChanges
  \/ HandleRemoveChange
  \/ \E r \in requests : \/ UploadSucceeded(r)
                         \/ UploadFailed(r)
                         \/ LoadServed(r)
                         \/ LoadDelivered(r)
                         \/ ScanServed(r)
                         \/ ScanDelivered(r)
                         \/ StageServed(r) /\ event'.ok
                         \/ StageDelivered(r)
                         \/ ApplyServed(r) /\ event'.ok
                         \/ ApplyDelivered(r)
                         \/ ClearServed(r) /\ event'.ok
                         \/ ClearDelivered(r)
                         \/ RemoveServed(r) /\ event'.ok
                         \/ RemoveDelivered(r)

SpecMirror == Init /\ [][NextMirror]_vars

\* Scanning alone: the user uploads, scans again and again and selects
\* issues; scans past
\* the MaxScans-th fail.
NextScan ==
  \/ SelectFile
  \/ HandleUpload
  \/ HandleScanDocument
  \/ HandleIssueSelect
  \/ \E r \in requests : \/ UploadSucceeded(r)
                         \/ UploadFailed(r)
                         \/ LoadServed(r)
                         \/ LoadDelivered(r)
                         \/ ScanServed(r)
                         \/ ScanDelivered(r)

SpecScan == Init /\ [][NextScan]_vars

\* The editor of IssueDetail: the user selects issues, asks for suggestions,
\* edits, types, cancels and saves until a first change is staged; nothing
\* is applied, cleared or removed.
NextEditor ==
  \/ SelectFile
  \/ HandleUpload
  \/ ScanWithinBudget
  \/ HandleIssueSelect
  \/ HandleGetSuggestion
  \/ HandleEdit
  \/ TypeContent
  \/ HandleCancel
  \/ ToggleDiffPreview
  \/ (nextChangeId = 1 /\ OfKind("stage") = {} /\ HandleSave)
  \/ \E r \in requests : \/ UploadSucceeded(r)
                         \/ UploadFailed(r)
                         \/ LoadServed(r)
                         \/ LoadDelivered(r)
                         \/ ScanServed(r)
                         \/ ScanDelivered(r)
                         \/ SuggestSucceeded(r)
                         \/ SuggestFailed(r)
                         \/ StageServed(r)
                         \/ StageDelivered(r)

SpecEditor == Init /\ [][NextEditor]_vars

\* Every kind of request with a loading flag, on the shortest way to it: the
\* user uploads, scans, selects one issue, asks for suggestions, stages a
\* first fix, applies, and the viewer renders.
NextRequests ==
  \/ SelectFile
  \/ HandleUpload
  \/ ScanWithinBudget
  \/ (selectedIssue = NoIssue /\ HandleIssueSelect)
  \/ HandleGetSuggestion
  \/ (nextChangeId = 1 /\ OfKind("stage") = {} /\ HandleSave)
  \/ HandleApplyChanges
  \/ ClickRenderDocument
  \/ RenderTimerFires
  \/ \E r \in requests : \/ UploadSucceeded(r)
                         \/ UploadFailed(r)
                         \/ LoadServed(r)
                         \/ LoadDelivered(r)
                         \/ ScanServed(r)
                         \/ ScanDelivered(r)
                         \/ SuggestSucceeded(r)
                         \/ SuggestFailed(r)
                         \/ StageServed(r)
                         \/ StageDelivered(r)
                         \/ ApplyServed(r)
                         \/ ApplyDelivered(r)
                         \/ FileSucceeded(r)
                         \/ RenderFailed(r)
                         \/ RenderSucceeded(r)

SpecRequests == Init /\ [][NextRequests]_vars

\* Every kind of request the front end sends: the same user, who also clears
\* the staged changes and removes single ones.
NextFailures ==
  \/ NextRequests
  \/ HandleClearChanges
  \/ HandleRemoveChange
  \/ \E r \in requests : \/ ClearServed(r)
                         \/ ClearDelivered(r)
                         \/ RemoveServed(r)
                         \/ RemoveDelivered(r)

SpecFailures == Init /\ [][NextFailures]_vars

\* The highlight code on its own: a document is rendered into one of
\* Containers, an issue of ViewerIssues is selected, and the effect runs.
InitHighlight ==
  /\ currentDocument = Document("d1", "ready")
  /\ selectedIssue = NoIssue
  /\ stagedChanges = <<>>
  /\ isApplyingChanges = FALSE
  /\ isUploading = FALSE
  /\ uploaderError = Null
  /\ uploadedFile = NoFile
  /\ issues = <<>>
  /\ panelIsLoading = FALSE
  /\ panelError = Null
  /\ isScanning = FALSE
  /\ isEditing = FALSE
  /\ editedContent = ""
  /\ detailError = Null
  /\ isLoadingSuggestion = FALSE
  /\ suggestion = NoSuggestion
  /\ showDiffPreview = FALSE
  /\ viewerIsLoading = FALSE
  /\ viewerError = Null
  /\ isDocumentRendered = TRUE
  /\ renderTimer = FALSE
  /\ requests = {}
  /\ serverVersion = 0
  /\ serverStaged = {}
  /\ serverApplied = {}
  /\ nextChangeId = 1
  /\ container \in Containers
  /\ viewerIssue \in ViewerIssues
  /\ selector = <<>>
  /\ found = Pending
  /\ highlighted = {}
  /\ diffViewData = NoDiffView
  /\ snippetIsLoading = [v \in Viewers |-> TRUE]
  /\ snippetError = [v \in Viewers |-> Null]
  /\ snippetRender = [v \in Viewers |-> "none"]
  /\ event = Ev("renderDone", TRUE, NoReq)

NextHighlight == HighlightEffect

SpecHighlight == InitHighlight /\ [][NextHighlight]_vars

\* The diff overlay: the user uploads, scans, selects issues and opens and
\* closes the overlay; while it is open (a modal) the page below takes no
\* input.
NextSnippet ==
  \/ (~diffViewData.open /\ SelectFile)
  \/ (~diffViewData.open /\ HandleUpload)
  \/ (~diffViewData.open /\ ScanWithinBudget)
  \/ (~diffViewData.open /\ HandleIssueSelect)
  \/ OpenDiffView
  \/ CloseDiffView
  \/ \E v \in Viewers : \/ SnippetRenderSucceeded(v)
                        \/ SnippetRenderFailed(v)
  \/ \E r \in requests : \/ UploadSucceeded(r)
                         \/ UploadFailed(r)
                         \/ LoadServed(r)
                         \/ LoadDelivered(r)
                         \/ ScanServed(r)
                         \/ ScanDelivered(r)

SpecSnippet == Init /\ [][NextSnippet]_vars

\* Every renderAsync a snippet viewer awaits settles.
FairSnippet ==
  /\ SpecSnippet
  /\ \A v \in Viewers :
       WF_vars(SnippetRenderSucceeded(v) \/ SnippetRenderFailed(v))

\* Every request in flight is eventually processed and answered.
Resolve(slot) == \E r \in requests : r.slot = slot /\ (Serve(r) \/ Deliver(r))

FairRequests ==
  /\ SpecRequests
  /\ \A slot \in 1..MaxInFlight : WF_vars(Resolve(slot))

\* ------------------------------------------------------------------ claims
\* the request whose response the step handled (a response removes its request)
Handled(kind) == {r \in requests : r \notin requests' /\ r.kind = kind}
\* the requests the step sent
Sent == {r \in requests' : r \notin requests}
ChangeIds(staged) == {staged[n].id : n \in 1..Len(staged)}

\* C1: when the uploader delivers a document d, App holds currentDocument = d
\* (a Document built from the upload response), selectedIssue = null and
\* stagedChanges = [].
C1_UploadResetsApp ==
  (event.op = "uploadDone" /\ event.ok) =>
    /\ currentDocument \in {Document(id, st) : id \in DocIds, st \in DocStatuses}
    /\ selectedIssue = NoIssue
    /\ stagedChanges = <<>>

C1_Witness ==
  /\ event.op = "uploadDone" /\ event.ok
  /\ currentDocument # NoDoc
  /\ \E r \in requests : r.kind = "load" /\ r.origin = "mount"

\* The error cell of the component that issued a request of the handler; App
\* declares no error state (its catch blocks only log).
AppError == Null
ErrorOfIssuer(op) ==
  CASE op = "uploadDone" -> uploaderError
    [] op \in {"loadDone", "scanDone"} -> panelError
    [] op = "suggestDone" -> detailError
    [] op = "renderDone" -> viewerError
    [] OTHER -> AppError
ComponentRequests == {"uploadDone", "loadDone", "scanDone", "suggestDone", "renderDone"}
AppRequests == {"stageDone", "applyDone", "clearDone", "removeDone"}

\* C2: every failed request (upload, issue load, scan, suggest-fix, document
\* fetch or render, stage-change, apply-changes, clear, remove) leaves a
\* non-null error string in the state of the component that issued it.
C2_EveryFailureSetsError ==
  (event.op \in ComponentRequests \cup AppRequests /\ ~event.ok) =>
    ErrorOfIssuer(event.op) # Null

\* C3: (1) with no request in flight every loading flag is false; (2) while
\* requests keep resolving, every loading flag that is set is reset again,
\* whether the requests succeed or fail.
C3_LoadingFlagsReset ==
  /\ [](requests = {} =>
          /\ ~isUploading /\ ~panelIsLoading /\ ~isScanning
          /\ ~isLoadingSuggestion /\ ~isApplyingChanges /\ ~viewerIsLoading)
  /\ isUploading ~> ~isUploading
  /\ panelIsLoading ~> ~panelIsLoading
  /\ isScanning ~> ~isScanning
  /\ isLoadingSuggestion ~> ~isLoadingSuggestion
  /\ isApplyingChanges ~> ~isApplyingChanges
  /\ viewerIsLoading ~> ~viewerIsLoading

C3_Witness ==
  /\ event.op = "applyDone" /\ ~event.ok
  /\ ~isApplyingChanges
  /\ isDocumentRendered
  /\ requests = {}

\* C4: whenever an issue-list request is in flight, the IssuePanel's loading
\* indicator is on (isLoading is true).
C4_LoadingWhileIssueRequestInFlight ==
  OfKind("load") # {} => panelIsLoading

\* C5 as stated: a suggest-fix response is always applied when it arrives:
\* suggestion set, editedContent replaced by its new_value, diff preview open.
C5_SuggestionAlwaysReplacesContent ==
  (event.op = "suggestDone" /\ event.ok) =>
    /\ suggestion # NoSuggestion
    /\ editedContent = suggestion.new_value
    /\ showDiffPreview

\* C5 amended: a suggest-fix response is always applied when it arrives,
\* whatever issue is selected by then: the suggestion (with the issue_id of
\* the request) is stored, the diff preview is opened, and editedContent is
\* replaced by new_value when new_value is non-empty and kept otherwise.
C5_StaleSuggestionApplied ==
  [][ (event'.op = "suggestDone" /\ event'.ok) =>
        \E r \in Handled("suggest") :
          /\ suggestion'.issue_id = r.issue.id
          /\ suggestion'.new_value \in NewValues(r.issue.id)
          /\ showDiffPreview'
          /\ editedContent' = IF suggestion'.new_value # ""
                                THEN suggestion'.new_value
                                ELSE editedContent ]_vars

\* the panel of i2 staged the text suggested for i1
C5_Witness ==
  \E n \in 1..Len(stagedChanges) :
    /\ stagedChanges[n].issue_id = "i2"
    /\ stagedChanges[n].new_content = "fix1"
    /\ stagedChanges[n].change_type = "suggested"

\* C6: a stage-change response reporting success appends exactly one
\* StagedChange at the end of stagedChanges, built from the response
\* (id = change_id, created_at) and from what was submitted (issue id,
\* new content, change type); the previous entries are unchanged, in order.
C6_StageAppendsOneChange ==
  [][ (event'.op = "stageDone" /\ event'.ok) =>
        \E r \in Handled("stage") :
          /\ Len(stagedChanges') = Len(stagedChanges) + 1
          /\ \A n \in 1..Len(stagedChanges) : stagedChanges'[n] = stagedChanges[n]
          /\ LET change == stagedChanges'[Len(stagedChanges')]
             IN /\ change.id = r.change_id
                /\ change.issue_id = r.issueId
                /\ change.new_content = r.newContent
                /\ change.change_type = r.changeType
                /\ change.created_at = r.created_at ]_vars

C6_Witness ==
  /\ event.op = "stageDone" /\ event.ok
  /\ Len(stagedChanges) = 2
  /\ stagedChanges[2].id = 2

\* C7: when the apply request resolves, the staged-changes list is emptied if
\* and only if the response reports success = true; on success = false or on
\* a thrown error the list is unchanged.
C7_ApplyClearsOnlyOnSuccess ==
  [][ event'.op = "applyDone" =>
        stagedChanges' = IF event'.detail = "success" THEN <<>>
                                                       ELSE stagedChanges ]_vars

C7_Witness ==
  /\ event.op = "applyDone"
  /\ event.detail = "refused"
  /\ stagedChanges # <<>>

\* C8: after handleClearChanges has run with a document, the local list is
\* empty whether the backend request succeeded or failed; its request is for
\* the current document, and without a document it sends nothing and changes
\* nothing.
C8_ClearAlwaysEmptiesList ==
  [][ /\ event'.op = "clearDone" => stagedChanges' = <<>>
      /\ event'.op = "handleClearChanges" =>
           IF currentDocument = NoDoc
             THEN Sent = {} /\ UNCHANGED <<appVars, serverVars>>
             ELSE /\ Cardinality(Sent) = 1
                  /\ \A r \in Sent : r.kind = "clear" /\ r.doc = currentDocument.id
                  /\ UNCHANGED stagedChanges ]_vars

\* the backend refused to clear, the local list is empty all the same
C8_Witness ==
  /\ event.op = "clearDone" /\ ~event.ok
  /\ stagedChanges = <<>>
  /\ serverStaged # {}

\* C9: after handleRemoveChange(id) has resolved, no entry with that id
\* remains in the local list and all the other entries are preserved in
\* order, whether the backend request succeeded or failed.
C9_RemoveAlwaysFilters ==
  [][ event'.op = "removeDone" =>
        \E r \in Handled("remove") :
          /\ r.changeId \notin ChangeIds(stagedChanges')
          /\ stagedChanges' =
               SelectSeq(stagedChanges, LAMBDA change : change.id # r.changeId) ]_vars

\* the backend refused to remove, the entry is gone and the other one is kept
C9_Witness ==
  /\ event.op = "removeDone" /\ ~event.ok
  /\ Len(stagedChanges) = 1
  /\ ChangeIds(stagedChanges) # serverStaged

\* C10: Apply sends exactly one apply-changes request for the current
\* document, with no change_ids (an empty body); the batch the backend then
\* applies is every change staged on the server, whatever the local list holds.
C10_ApplySendsNoChangeIds ==
  [][ /\ event'.op = "handleApplyChanges" =>
           /\ Cardinality(Sent) = 1
           /\ \A r \in Sent : /\ r.kind = "apply"
                              /\ r.doc = currentDocument.id
                              /\ ~r.payload.has_ids
      /\ (event'.op = "serveApply" /\ event'.detail = "success") =>
           /\ serverApplied' = serverApplied \cup serverStaged
           /\ serverStaged' = {} ]_vars

\* a change the local list no longer holds was applied
C10_Witness ==
  /\ event.op = "serveApply" /\ event.detail = "success"
  /\ serverApplied \ ChangeIds(stagedChanges) # {}
  /\ stagedChanges # <<>>

\* C11: a failed stage-change request leaves stagedChanges, selectedIssue and
\* currentDocument unchanged; a stage-change request is only ever sent with an
\* issue selected and a document loaded.
C11_FailedStageChangesNothing ==
  [][ /\ (event'.op = "stageDone" /\ ~event'.ok) =>
           UNCHANGED <<stagedChanges, selectedIssue, currentDocument>>
      /\ \A r \in Sent : (r.kind = "stage" /\ ~r.served) =>
           /\ event'.op = "handleSave"
           /\ selectedIssue # NoIssue
           /\ currentDocument # NoDoc
           /\ r.issue = selectedIssue ]_vars

\* a second fix failed to stage, the first one is still the whole list
C11_Witness ==
  /\ event.op = "stageDone" /\ ~event.ok
  /\ Len(stagedChanges) = 1
  /\ selectedIssue # NoIssue

\* The client's mirror of the server's staged changes.
StagingKinds == {"stage", "apply", "clear", "remove"}
StagingInFlight == {r \in requests : r.kind \in StagingKinds}
Mirror == ChangeIds(stagedChanges) = serverStaged
\* The mirror up to the one staged-change request the backend has processed
\* and whose response the client has not handled yet.
MirrorUpTo(r) ==
  CASE ~r.served -> Mirror
    [] r.kind = "stage" -> ChangeIds(stagedChanges) \cup {r.change_id} = serverStaged
    [] r.kind = "remove" -> ChangeIds(stagedChanges) \ {r.changeId} = serverStaged
    [] r.kind = "clear" -> serverStaged = {}
    [] r.kind = "apply" -> IF r.success THEN serverStaged = {} ELSE Mirror
SoloMirror ==
  /\ Cardinality(StagingInFlight) <= 1
  /\ \A r \in StagingInFlight : MirrorUpTo(r)
  /\ StagingInFlight = {} => Mirror

C13_ListIsTheReloadAfterScan ==
  (requests = {} /\ serverVersion > 0 /\ panelError = Null) =>
    issues = IssueList(serverVersion)

\* C14: handleScanDocument sends its issue-list request only after its scan
\* request resolved successfully; a failed scan sends no issue-list request,
\* sets error and leaves the issue list unchanged; a scan request is in
\* flight only for a document whose status is 'uploaded' and while
\* isScanning, and at most one at any time.
C14_ScanThenReload ==
  [][ /\ \A l \in Sent : (l.kind = "load" /\ ~l.served /\ l.origin = "scan") =>
           /\ event'.op = "scanDone" /\ event'.ok
           /\ \E r \in Handled("scan") : r.ok /\ r.doc = l.doc
      /\ (event'.op = "scanDone" /\ ~event'.ok) =>
           /\ Sent = {}
           /\ panelError' = "Error: Request failed (scan)"
           /\ issues' = issues
           /\ ~isScanning'
      /\ Cardinality(OfKind("scan")') <= 1
      /\ \A r \in OfKind("scan")' :
           isScanning' /\ currentDocument'.status = "uploaded" ]_vars

\* a second scan failed and the list of the first one is still held
C14_Witness ==
  /\ event.op = "scanDone" /\ ~event.ok
  /\ issues = IssueList(1)
  /\ panelError # Null

\* C15: loadIssues replaces the issue list only by a successful response; a
\* failed load keeps the issues held before and sets error; every start of a
\* load resets error to null (and sets isLoading); an issue of the list can
\* be clicked only while isLoading is false and error is null.
C15_LoadReplacesOnlyOnSuccess ==
  [][ /\ event'.op = "loadDone" =>
           \E r \in Handled("load") :
             IF event'.ok
               THEN issues' = IssueList(r.resp) /\ panelError' = panelError
               ELSE issues' = issues /\ panelError' # Null
      /\ \A l \in Sent : (l.kind = "load" /\ ~l.served) =>
           panelError' = Null /\ panelIsLoading'
      /\ event'.op = "handleIssueSelect" =>
           ~panelIsLoading /\ panelError = Null ]_vars

\* an older load failed after the reload had filled the list
C15_Witness ==
  /\ event.op = "loadDone" /\ ~event.ok
  /\ issues = IssueList(1)
  /\ panelError # Null
  /\ selectedIssue # NoIssue

\* C16: handleSave without an issue, or with an editedContent that is empty
\* or only whitespace, sets error to 'Fix content cannot be empty', sends no
\* stage request and leaves isEditing, editedContent and suggestion unchanged.
C16_EmptySaveRejected ==
  [][ (event'.op = "handleSave"
         /\ (selectedIssue = NoIssue \/ editedContent \in {"", " "})) =>
        /\ detailError' = "Fix content cannot be empty"
        /\ Sent = {}
        /\ UNCHANGED <<isEditing, editedContent, suggestion, showDiffPreview,
                       stagedChanges>> ]_vars

\* a suggestion blanked by the user was not saved
C16_Witness ==
  /\ event.op = "handleSave" /\ ~event.ok
  /\ editedContent = " "
  /\ suggestion # NoSuggestion
  /\ detailError = "Fix content cannot be empty"

\* C17: a valid save stages the edited content with change_type 'suggested'
\* if and only if IssueDetail holds a suggestion at that moment (whatever the
\* user did to the suggested text), otherwise 'manual'; afterwards isEditing
\* is false, error is null, suggestion is null and the diff preview is closed.
C17_ChangeTypeFollowsSuggestion ==
  [][ (event'.op = "handleSave" /\ event'.ok) =>
        /\ Cardinality(Sent) = 1
        /\ \A r \in Sent :
             /\ r.kind = "stage"
             /\ r.issueId = selectedIssue.id
             /\ r.newContent = editedContent
             /\ r.changeType = "suggested" <=> suggestion # NoSuggestion
             /\ r.changeType = "manual" <=> suggestion = NoSuggestion
        /\ ~isEditing'
        /\ detailError' = Null
        /\ suggestion' = NoSuggestion
        /\ ~showDiffPreview' ]_vars

\* a suggestion the user overwrote is staged as 'suggested'
C17_Witness ==
  /\ event.op = "handleSave" /\ event.ok
  /\ suggestion = NoSuggestion
  /\ \E r \in requests :
       r.kind = "stage" /\ r.changeType = "suggested" /\ r.newContent = "typed"

\* C18: whenever the issue shown by IssueDetail changes to another (non-null)
\* issue, the local state is reset: editedContent is that issue's original
\* content ('' when it has none), isEditing is false, error is null,
\* suggestion is null and the diff preview is closed; isLoadingSuggestion is
\* left as it is.
C18_IssueChangeResetsDetail ==
  [][ (selectedIssue' # selectedIssue /\ selectedIssue' # NoIssue) =>
        /\ editedContent' = OriginalContentOf(selectedIssue'.id)
        /\ ~isEditing'
        /\ detailError' = Null
        /\ suggestion' = NoSuggestion
        /\ ~showDiffPreview'
        /\ isLoadingSuggestion' = isLoadingSuggestion ]_vars

\* the user moved on to i2 while the suggestion for i1 is still awaited
C18_Witness ==
  /\ event.op = "handleIssueSelect"
  /\ selectedIssue.id = "i2"
  /\ editedContent = ""
  /\ isLoadingSuggestion
  /\ \E r \in requests : r.kind = "suggest" /\ r.issue.id = "i1"

\* C19: when the suggest-fix request succeeds the response is stored as the
\* suggestion, editedContent is replaced by new_value only if new_value is
\* non-empty, and the diff preview opens; when it fails error is set to the
\* 'Failed to get AI suggestion' message and suggestion, editedContent and
\* showDiffPreview are unchanged.
C19_SuggestionOutcome ==
  [][ event'.op = "suggestDone" =>
        \E r \in Handled("suggest") :
          IF event'.ok
            THEN /\ suggestion' \in {Suggestion(r.issue.id, nv) :
                                       nv \in NewValues(r.issue.id)}
                 /\ editedContent' \in {suggestion'.new_value, editedContent}
                 /\ editedContent' = editedContent <=>
                      suggestion'.new_value \in {"", editedContent}
                 /\ showDiffPreview'
                 /\ detailError' = detailError
            ELSE /\ detailError' = "Failed to get AI suggestion: Error"
                 /\ UNCHANGED <<suggestion, editedContent, showDiffPreview>> ]_vars

\* the request failed while the user was typing a fix of their own
C19_Witness ==
  /\ event.op = "suggestDone" /\ ~event.ok
  /\ detailError # Null
  /\ isEditing
  /\ editedContent = "typed"
  /\ suggestion = NoSuggestion

\* C20: at most one suggest-fix request is in flight at any time, and
\* isLoadingSuggestion is true exactly while one is, across issue switches;
\* a request is only sent when not editing and without a suggestion held.
C20_OneSuggestionRequest ==
  [][ /\ Cardinality(OfKind("suggest")') <= 1
      /\ isLoadingSuggestion' <=> OfKind("suggest")' # {}
      /\ event'.op = "handleGetSuggestion" =>
           ~isEditing /\ suggestion = NoSuggestion /\ OfKind("suggest") = {} ]_vars

\* on i2, after an edit was cancelled, the button is back but still disabled
\* by the request for i1
C20_Witness ==
  /\ event.op = "handleCancel"
  /\ selectedIssue.id = "i2"
  /\ ~isEditing /\ suggestion = NoSuggestion
  /\ isLoadingSuggestion
  /\ \E r \in requests : r.kind = "suggest" /\ r.issue.id = "i1"

\* C21: at most one apply-changes request is in flight at any time, and
\* isApplyingChanges is true exactly while one is; an apply request is sent
\* only with a non-empty local list holding a pending change and while not
\* applying; Clear All acts only with a non-empty list and while not applying.
C21_OneApplyRequest ==
  [][ /\ Cardinality(OfKind("apply")') <= 1
      /\ isApplyingChanges' <=> OfKind("apply")' # {}
      /\ event'.op = "handleApplyChanges" =>
           /\ stagedChanges # <<>>
           /\ Len(pendingChanges) > 0
           /\ ~isApplyingChanges
           /\ OfKind("apply") = {}
           /\ Cardinality(Sent) = 1
      /\ event'.op = "handleClearChanges" =>
           stagedChanges # <<>> /\ ~isApplyingChanges ]_vars

\* while the apply request is in flight a change is removed and another is
\* still listed: the bar is shown, a request could be sent, Apply is disabled
C21_Witness ==
  /\ event.op = "removeDone"
  /\ isApplyingChanges
  /\ OfKind("apply") # {}
  /\ Len(pendingChanges) = 1
  /\ CanSend

\* C22: in every reachable state a selected issue or a non-empty list of
\* staged changes implies a current document; once currentDocument is set no
\* step changes it or resets it to null, and handleDocumentUploaded runs only
\* while there is no document (the uploader is unmounted afterwards, with no
\* upload left in flight).
C22_DocumentPresence ==
  [][ /\ (selectedIssue' # NoIssue \/ stagedChanges' # <<>>) =>
           currentDocument' # NoDoc
      /\ currentDocument # NoDoc => currentDocument' = currentDocument
      /\ (event'.op = "uploadDone" /\ event'.ok) => currentDocument = NoDoc
      /\ currentDocument' # NoDoc => OfKind("upload")' = {} ]_vars

\* a fix staged for the selected issue of the uploaded document
C22_Witness ==
  /\ event.op = "stageDone" /\ event.ok
  /\ selectedIssue # NoIssue
  /\ stagedChanges # <<>>
  /\ currentDocument = Document("d1", "uploaded")
  /\ ~UploaderMounted

\* C23: no entry of stagedChanges ever has is_fixed set: the pending-change
\* count of the staged-changes bar is the length of stagedChanges and the
\* applied-change count is 0.
C23_NoStagedChangeIsFixed ==
  /\ \A n \in 1..Len(stagedChanges) : ~stagedChanges[n].is_fixed
  /\ Len(pendingChanges) = Len(stagedChanges)
  /\ Len(appliedChanges) = 0

\* the backend refused to apply two staged changes: both are still pending
C23_Witness ==
  /\ event.op = "applyDone" /\ event.detail = "refused"
  /\ Len(stagedChanges) = 2
  /\ Len(pendingChanges) = 2
  /\ serverApplied = {}

\* C24: handleUpload sends an upload only with a file selected and no upload
\* in flight, so at most one upload request exists at a time; when it
\* succeeds, onDocumentUploaded receives (once) a Document whose id is the
\* response's document_id, and the selected file is cleared; when it fails,
\* onDocumentUploaded is not invoked (App's state is unchanged), an error
\* message is set and the selected file is retained; either way isUploading
\* is reset.
C24_UploadOutcome ==
  [][ /\ event'.op = "handleUpload" =>
           /\ uploadedFile # NoFile
           /\ ~isUploading
           /\ OfKind("upload") = {}
           /\ Cardinality(Sent) = 1
           /\ \A r \in Sent : r.kind = "upload" /\ r.file = uploadedFile
      /\ Cardinality(OfKind("upload")') <= 1
      /\ isUploading' <=> OfKind("upload")' # {}
      /\ event'.op = "uploadDone" =>
           /\ Handled("upload") # {}
           /\ IF event'.ok
                THEN /\ currentDocument = NoDoc
                     /\ currentDocument' # NoDoc
                     /\ currentDocument'.id = event'.detail
                     /\ event'.detail \in DocIds
                     /\ uploadedFile' = NoFile
                ELSE /\ UNCHANGED appVars
                     /\ uploaderError' # Null
                     /\ uploadedFile' = uploadedFile
                     /\ uploadedFile' # NoFile ]_vars

\* the upload failed: no document, the message is shown, the file is still
\* selected and can be uploaded again
C24_Witness ==
  /\ event.op = "uploadDone" /\ ~event.ok
  /\ currentDocument = NoDoc
  /\ uploaderError = "Upload failed"
  /\ uploadedFile \in Files
  /\ ~isUploading

\* the elements of a container, and document order on them
ElementSet(dom) == {Elements(dom)[n] : n \in 1..Len(Elements(dom))}
Precedes(e, f) == e.p < f.p \/ (e.p = f.p /\ e.span < f.span)
HasText(dom, e, content) ==
  e.tag = "span" /\ trimChars(textContent(e, dom)) = trimChars(content)
ContainsText(dom, e, content) ==
  includes(textContent(e, dom), trimChars(content))

\* C25: findTargetElement returns the element of the XPath-derived selector
\* whenever the issue has an element_xpath and the lookup yields an element;
\* the content search decides only when there is no element_xpath or the
\* lookup yields nothing (no match, or the query throws); it returns the
\* parent of the first text node whose trimmed text is the trimmed content
\* if there is one, else the first element whose text includes it; when both
\* strategies fail the result is null and nothing is highlighted.
C25_SelectorThenContent ==
  found # Pending =>
    LET xpath == viewerIssue.element_xpath
        content == viewerIssue.original_content
        lookup == querySelector(selector, container)
        selectorHit == /\ xpath # <<>>
                       /\ selector # <<>>
                       /\ ~lookup.threw
                       /\ lookup.element # NoElement
        all == ElementSet(container)
        exact == {e \in all : HasText(container, e, content)}
        partial == {e \in all : ContainsText(container, e, content)}
    IN /\ found.by \in {"selector", "content", "none"}
       /\ found.by = "selector" <=> selectorHit
       /\ found.by = "selector" => found.element = lookup.element
       /\ found.by = "content" =>
            /\ content # <<>>
            /\ IF exact # {}
                 THEN /\ found.element \in exact
                      /\ \A e \in exact : ~Precedes(e, found.element)
                 ELSE /\ found.element \in partial
                      /\ \A e \in partial : ~Precedes(e, found.element)
       /\ found.by = "none" =>
            /\ found.element = NoElement
            /\ content = <<>> \/ (exact = {} /\ partial = {})
       /\ highlighted = IF found.by = "none" THEN {} ELSE {found.element}

\* the selector of a table locator is rejected by the query, and the run of
\* the second paragraph is found by its exact text although the first
\* paragraph contains that text too
C25_Witness ==
  /\ found.by = "content"
  /\ viewerIssue.element_xpath # <<>>
  /\ querySelector(selector, container).threw
  /\ found.element = Span(2, 1)
  /\ ContainsText(container, Paragraph(1), viewerIssue.original_content)
  /\ highlighted = {Span(2, 1)}

\* a selector of the form tag:nth-of-type(n)
NthSelector(tag, n) == TagChars(tag) \o NthOfType \o n \o <<")">>
HasSlash(s) == \E i \in 1..Len(s) : s[i] = "/"
HasPrefixW(s) == \E i \in 1..Len(s) : StartsAt(s, i, <<"w", ":">>)

\* C26: convertXPathToSelector maps //w:p[n] to 'p:nth-of-type(n)',
\* //w:p[n]/w:r[m]/w:t to 'p:nth-of-type(n) span:nth-of-type(m)' and
\* //w:tbl[n]/w:tr[m]/w:tc[k]/w:p[l] to 'table:nth-of-type(n)
\* tr:nth-of-type(m) td:nth-of-type(k) p:nth-of-type(l)'; for these shapes
\* the result contains no 'w:' and no '/'.
C26_XPathShapesConverted ==
  found # Pending =>
    \A n, m \in XPathIndices :
      LET xpath == viewerIssue.element_xpath
      IN /\ xpath = XPathParagraph(n) => selector = NthSelector("p", n)
         /\ xpath = XPathText(n, m) =>
              selector = NthSelector("p", n) \o <<" ">> \o NthSelector("span", m)
         /\ \A k, l \in XPathIndices :
              xpath = XPathTableCell(n, m, k, l) =>
                selector = NthSelector("table", n) \o <<" ">>
                             \o NthSelector("tr", m) \o <<" ">>
                             \o NthSelector("td", k) \o <<" ">>
                             \o NthSelector("p", l)
         /\ xpath # <<>> => ~HasSlash(selector) /\ ~HasPrefixW(selector)

\* C27: every mounted DocxSnippetViewer eventually leaves its loading state,
\* whatever base64Data it was given (the empty string included): while it
\* stays mounted, isLoading becomes false with the snippet rendered or an
\* error set.
C27_SnippetViewerLeavesLoading ==
  \A v \in Viewers :
    (SnippetMounted(diffViewData) /\ snippetIsLoading[v])
      ~> \/ ~SnippetMounted(diffViewData)
         \/ /\ ~snippetIsLoading[v]
            /\ snippetRender[v] = "done" \/ snippetError[v] # Null

====
